---- MODULE Spec2Model ----
(***************************************************************************)
(* Verification model of kapp-controller's PackageRepository resource      *)
(* adapter (CRDApp and its Hooks), the kapp raw-option allow-lists, the    *)
(* kctrl AppWatcher status reader and the reconciliation engine they       *)
(* serve.                                                                  *)
(***************************************************************************)
EXTENDS Integers, Sequences, FiniteSets, TLC

\* ------------------------------------------------------------------ bounds
MaxFinalizers == 2      \* longest initial finalizer list
MaxCalls == 3           \* hook calls made by a direct caller of the Hooks
MaxOtherWrites == 1     \* writes of another client to the same resource
MaxRawOptions == 2      \* longest raw option list
MaxTime == 2            \* latest timestamp of a status, in ticks
TicksPerSecond == 2     \* resolution of a timestamp
MaxConditions == 2      \* longest Conditions sequence of a status
MaxReconciles == 1      \* Reconcile calls made on one CRDApp

VARIABLES
    stored,             \* the persisted PackageRepository (Finalizers, Status, ResourceVersion)
    pkgrModel,          \* CRDApp.pkgrModel: the copy the CRDApp was constructed with
    appStatus,          \* CRDApp.app.Status(): the engine's in-memory status
    hook,               \* the hook being executed, "none" when none is
    hpc,                \* position inside that hook: "get", "update", "-"
    existingRepo,       \* the local fetched by Get in updateStatusOnce / updatePackageRepository
    i,                  \* loop variable of updateStatus
    lastErr,            \* lastErr of updateStatus
    hookRet,            \* what the most recent hook call returned
    attempts,           \* history: updateStatusOnce calls made by the running updateStatus
    attemptErr,         \* history: what the most recent updateStatusOnce returned
    initialFinalizers,  \* history: the persisted finalizer list at construction
    okCalls,            \* history: successful calls per hook since construction
    ncalls,             \* history: hook calls made by the direct caller
    otherWrites,        \* history: writes made by the other client
    updates             \* history: Update calls issued by the most recent finalizer hook call

VARIABLES
    operation,          \* the kapp operation the raw options are for
    rawOptions,         \* AppDeployKapp.RawOptions / AppDeployKappDelete.RawOptions
    gate,               \* "input" before the options are checked, "done" after
    gateErr,            \* the error of the check, nil when the options pass
    toolArgs            \* the raw options handed to the kapp invocation, if any

gateVars == <<operation, rawOptions, gate, gateErr, toolArgs>>

VARIABLES
    status,             \* the App status TailAppStatus is given
    tail,               \* TailAppStatus: "start", "watching", "returned", "panicked"
    tailErr,            \* the error TailAppStatus returned
    lastStage,          \* the stage printTillCurrent returned
    printed             \* the log lines printed so far

watchVars == <<status, tail, tailErr, lastStage, printed>>

VARIABLES
    pc,                 \* where the engine's Reconcile stands, "idle" outside a call
    deleting,           \* whether the resource is marked for deletion
    reconciles,         \* Reconcile calls made so far; also the engine's clock
    run,                \* history: the outcome of each stage in the current Reconcile
    reconcileErr        \* what the most recent Reconcile returned

engineVars == <<pc, deleting, reconciles, run, reconcileErr>>

VARIABLES
    appNow,             \* the App status in the cluster, which the informer follows
    stopperChan,        \* AppWatcher.stopperChan: "nil", "open", "closed"
    informer,           \* the informer goroutine: "off", "running", "stopped"
    synced,             \* informer.HasSynced
    updateLines,        \* the log lines printed by the most recent printUpdate
    closes,             \* history: executions of stopWatch
    observed,           \* history: what printUpdate has reported: "failed", "reconciled"
    panicMsg            \* the panic that ended the process, "" when none

tailVars == <<appNow, stopperChan, informer, synced, updateLines, closes, observed, panicMsg>>

hookVars == <<stored, pkgrModel, appStatus, hook, hpc, existingRepo, i, lastErr, hookRet,
              attempts, attemptErr, initialFinalizers, okCalls, ncalls, otherWrites,
              updates>>

\* ------------------------------------------------------------- finalizers
deleteFinalizerName == "finalizers.packagerepository.packaging.carvel.dev/delete"
deletePrevFinalizerName == "delete.finalizers.kapp-ctrl.k14s.io"
\* a finalizer that belongs to some other controller
otherFinalizerName == "example.com/other"

FinalizerNames == {deleteFinalizerName, deletePrevFinalizerName, otherFinalizerName}

SeqsUpTo(S, n) == UNION {[1..k -> S] : k \in 0..n}

containsString(slice, s) == \E k \in 1..Len(slice) : slice[k] = s

removeString(slice, s) == SelectSeq(slice, LAMBDA item : item # s)

\* ----------------------------------------------------------------- errors
\* An error is a sequence of message parts, outermost first; nil is empty.
nil == <<>>
GetErrors == {<<"not found">>}
StoreErrors == {<<"conflict">>, <<"timeout">>}
Errorf(prefix, err) == <<prefix>> \o err

\* ------------------------------------------------------- engine's status
NoStatus == [Fetch |-> <<>>, Template |-> <<>>, Deploy |-> <<>>,
             ConsecutiveReconcileSuccesses |-> 0, ConsecutiveReconcileFailures |-> 0]

NoRepo == [Finalizers |-> <<>>, Status |-> NoStatus, ResourceVersion |-> 0]

\* ------------------------------------------------------------- the store
\* The store's optimistic concurrency: a write carrying a stale
\* resourceVersion is rejected; an accepted write that changes the object
\* gives it a new resourceVersion.
\* mutant: the store takes a write whatever version it was based on
StoreAcceptsAny(obj) == TRUE

StoreAccepts(obj) == obj.ResourceVersion = stored.ResourceVersion

StoreWrite(obj) ==
    stored' = IF obj = stored THEN stored
              ELSE [obj EXCEPT !.ResourceVersion = stored.ResourceVersion + 1]

\* ------------------------------------------------------- returning a hook
\* mutant: the hook reports success whatever happened
HookReturnSwallowsError(op, err) ==
    /\ hook' = "none"
    /\ hpc' = "-"
    /\ existingRepo' = NoRepo
    /\ hookRet' = [op |-> op, err |-> nil]
    /\ okCalls' = [okCalls EXCEPT ![op] = @ + 1]

HookReturn(op, err) ==
    /\ hook' = "none"
    /\ hpc' = "-"
    /\ existingRepo' = NoRepo
    /\ hookRet' = [op |-> op, err |-> err]
    /\ okCalls' = IF err = nil THEN [okCalls EXCEPT ![op] = @ + 1] ELSE okCalls

\* ----------------------------------------------------------- CRDApp hooks
\* mutant: the closure appends without looking
blockDeletionFuncAlwaysAppends(finalizers) == Append(finalizers, deleteFinalizerName)

blockDeletionFunc(finalizers) ==
    IF ~containsString(finalizers, deleteFinalizerName)
    THEN Append(finalizers, deleteFinalizerName)
    ELSE finalizers

\* mutant: the deprecated name is left in place
unblockDeletionFuncCurrentOnly(finalizers) == removeString(finalizers, deleteFinalizerName)

\* mutant: the finalizer list is emptied
unblockDeletionFuncClearsAll(finalizers) == <<>>

unblockDeletionFunc(finalizers) ==
    removeString(removeString(finalizers, deleteFinalizerName), deletePrevFinalizerName)

updateFunc(op, finalizers) ==
    IF op = "blockDeletion" THEN blockDeletionFunc(finalizers)
    ELSE unblockDeletionFunc(finalizers)

\* blockDeletion up to its call of updatePackageRepository
blockDeletion ==
    /\ hook = "none"
    /\ IF containsString(pkgrModel.Finalizers, deleteFinalizerName)
       THEN /\ HookReturn("blockDeletion", nil)
            /\ UNCHANGED stored
       ELSE /\ hook' = "blockDeletion"
            /\ hpc' = "get"
            /\ UNCHANGED <<stored, existingRepo, hookRet, okCalls>>
    /\ UNCHANGED <<pkgrModel, appStatus, i, lastErr, attempts, attemptErr,
                   initialFinalizers, otherWrites>>
    /\ updates' = 0

\* unblockDeletion up to its call of updatePackageRepository
unblockDeletion ==
    /\ hook = "none"
    /\ hook' = "unblockDeletion"
    /\ hpc' = "get"
    /\ UNCHANGED <<stored, existingRepo, hookRet, okCalls, pkgrModel, appStatus, i, lastErr,
                   attempts, attemptErr, initialFinalizers, otherWrites>>
    /\ updates' = 0

\* updatePackageRepository: the Get and its error return
updatePackageRepositoryGet ==
    /\ hook \in {"blockDeletion", "unblockDeletion"}
    /\ hpc = "get"
    /\ \/ \E err \in GetErrors :
             HookReturn(hook, Errorf("Updating PackageRepository", err))
       \/ /\ existingRepo' = stored
          /\ hpc' = "update"
          /\ UNCHANGED <<hook, hookRet, okCalls>>
    /\ UNCHANGED <<stored, pkgrModel, appStatus, i, lastErr, attempts, attemptErr,
                   initialFinalizers, otherWrites, updates>>

\* updatePackageRepository: updateFunc, the Update and the return
updatePackageRepositoryUpdate ==
    /\ hook \in {"blockDeletion", "unblockDeletion"}
    /\ hpc = "update"
    /\ LET updated == [existingRepo EXCEPT !.Finalizers = updateFunc(hook, @)]
       IN \/ /\ StoreAccepts(updated)
             /\ StoreWrite(updated)
             /\ HookReturn(hook, nil)
          \/ /\ ~StoreAccepts(updated)
             /\ HookReturn(hook, Errorf("Updating PackageRepository", <<"conflict">>))
             /\ UNCHANGED stored
          \/ /\ \E err \in StoreErrors :
                   HookReturn(hook, Errorf("Updating PackageRepository", err))
             /\ UNCHANGED stored
    /\ UNCHANGED <<pkgrModel, appStatus, i, lastErr, attempts, attemptErr,
                   initialFinalizers, otherWrites>>
    /\ updates' = updates + 1

\* The loop condition of updateStatus.
UpdateStatusAttemptLimit == 5
\* mutant: one iteration too many
updateStatusLoopOneMore(n) == n <= UpdateStatusAttemptLimit

updateStatusLoop(n) == n < UpdateStatusAttemptLimit

\* updateStatus keeps the error of the attempt just made.
updateStatusLastErr(prev, err) == err

\* mutant: the loop assigns a shadowing variable, the function's own
\* lastErr stays nil
updateStatusReturnShadowed(err) == nil

\* What updateStatus returns after the loop.
updateStatusReturn(err) == err

\* updateStatus up to the first updateStatusOnce
updateStatus ==
    /\ hook = "none"
    /\ hook' = "updateStatus"
    /\ hpc' = "get"
    /\ i' = 0
    /\ lastErr' = nil
    /\ attempts' = 0
    /\ attemptErr' = nil
    /\ UNCHANGED <<stored, existingRepo, hookRet, okCalls, pkgrModel,
                   initialFinalizers, otherWrites>>
    /\ updates' = 0

\* One updateStatusOnce has returned err: the rest of the loop body, the
\* loop's increment and condition, and the return after the loop.
updateStatusOnceReturned(err) ==
    /\ attempts' = attempts + 1
    /\ attemptErr' = err
    /\ lastErr' = updateStatusLastErr(lastErr, err)
    /\ IF lastErr' = nil
       THEN /\ HookReturn("updateStatus", nil)
            /\ i' = i
       ELSE /\ i' = i + 1
            /\ IF updateStatusLoop(i')
               THEN /\ hpc' = "get"
                    /\ existingRepo' = NoRepo
                    /\ UNCHANGED <<hook, hookRet, okCalls>>
               ELSE HookReturn("updateStatus", updateStatusReturn(lastErr'))

\* updateStatusOnce: the Get and its error return
updateStatusOnceGet ==
    /\ hook = "updateStatus"
    /\ hpc = "get"
    /\ \/ \E err \in GetErrors :
             updateStatusOnceReturned(Errorf("Fetching PackageRepository", err))
       \/ /\ existingRepo' = stored
          /\ hpc' = "update"
          /\ UNCHANGED <<hook, hookRet, okCalls, i, lastErr, attempts, attemptErr>>
    /\ UNCHANGED <<stored, pkgrModel, appStatus, initialFinalizers, otherWrites, updates>>

\* mutant: the failure counter is filled from the wrong field
updateStatusOnceStatusWrongCounter(st) ==
    [Fetch |-> st.Fetch,
     Template |-> st.Template,
     Deploy |-> st.Deploy,
     ConsecutiveReconcileSuccesses |-> st.ConsecutiveReconcileSuccesses,
     ConsecutiveReconcileFailures |-> st.ConsecutiveReconcileSuccesses]

\* The status updateStatusOnce writes: the engine's status fields.
updateStatusOnceStatus(st) ==
    [Fetch |-> st.Fetch,
     Template |-> st.Template,
     Deploy |-> st.Deploy,
     ConsecutiveReconcileSuccesses |-> st.ConsecutiveReconcileSuccesses,
     ConsecutiveReconcileFailures |-> st.ConsecutiveReconcileFailures]

\* updateStatusOnce: the status assignment, the UpdateStatus and the return
updateStatusOnceUpdate ==
    /\ hook = "updateStatus"
    /\ hpc = "update"
    /\ LET updated == [existingRepo EXCEPT !.Status = updateStatusOnceStatus(appStatus)]
       IN \/ /\ StoreAccepts(updated)
             /\ StoreWrite(updated)
             /\ updateStatusOnceReturned(nil)
          \/ /\ ~StoreAccepts(updated)
             /\ updateStatusOnceReturned(<<"conflict">>)
             /\ UNCHANGED stored
          \/ /\ \E err \in StoreErrors : updateStatusOnceReturned(err)
             /\ UNCHANGED stored
    /\ UNCHANGED <<pkgrModel, appStatus, initialFinalizers, otherWrites, updates>>

\* ------------------------------------------------------ the other client
\* Another client of the store adds or removes its own finalizer.
OtherWriter ==
    /\ otherWrites < MaxOtherWrites
    /\ otherWrites' = otherWrites + 1
    /\ stored' = [stored EXCEPT
                    !.Finalizers = IF containsString(@, otherFinalizerName)
                                   THEN removeString(@, otherFinalizerName)
                                   ELSE Append(@, otherFinalizerName),
                    !.ResourceVersion = @ + 1]
    /\ UNCHANGED <<pkgrModel, appStatus, hook, hpc, existingRepo, i, lastErr, hookRet,
                   attempts, attemptErr, initialFinalizers, okCalls, updates>>

\* =========================================================== kapp flag gate
Range(f) == {f[k] : k \in DOMAIN f}

kappAllowedSharedOpts == <<
    "--column", "--debug", "--json", "--tty",
    "--dangerous-ignore-failing-api-services",
    "--dangerous-scope-to-fallback-allowed-namespaces",
    "--filter", "--filter-age", "--filter-kind", "--filter-kind-name",
    "--filter-kind-ns", "--filter-kind-ns-name", "--filter-name", "--filter-ns",
    "--kube-api-qps", "--kube-api-burst" >>

kappAllowedChangeOpts == <<
    "--diff-changes", "--diff-against-last-applied", "--diff-context",
    "--diff-line-numbers", "--diff-mask", "--diff-run", "--diff-summary",
    "--apply-check-interval", "--apply-concurrency",
    "--apply-default-update-strategy", "--apply-ignored", "--apply-timeout",
    "--wait", "--wait-check-interval", "--wait-concurrency", "--wait-ignored",
    "--wait-timeout" >>

\* the flags listed inline for deploy
kappDeployOnlyOpts == <<
    "--dangerous-allow-empty-list-of-resources",
    "--dangerous-override-ownership-of-existing-resources",
    "--into-ns", "--map-ns", "--logs", "--logs-all",
    "--app-changes-max-to-keep", "--labels", "--patch" >>

\* the flags listed inline for inspect
kappInspectOnlyOpts == << "--raw", "--status", "--tree" >>

\* exec.NewFlagSet: the set of the flags of all the lists it is given
NewFlagSet(lists) == UNION {Range(lists[k]) : k \in DOMAIN lists}

kappAllowedDeployFlagSet ==
    NewFlagSet(<<kappAllowedSharedOpts, kappAllowedChangeOpts, kappDeployOnlyOpts>>)

\* mutant: inspect built like the other two, with the change flags
kappAllowedInspectFlagSetWithChange ==
    NewFlagSet(<<kappAllowedSharedOpts, kappAllowedChangeOpts, kappInspectOnlyOpts>>)

kappAllowedInspectFlagSet == NewFlagSet(<<kappAllowedSharedOpts, kappInspectOnlyOpts>>)

kappAllowedDeleteFlagSet == NewFlagSet(<<kappAllowedSharedOpts, kappAllowedChangeOpts>>)

Operations == {"Deploy", "Inspect", "Delete"}

AllowedFlagSet(op) ==
    CASE op = "Deploy" -> kappAllowedDeployFlagSet
      [] op = "Inspect" -> kappAllowedInspectFlagSet
      [] op = "Delete" -> kappAllowedDeleteFlagSet

\* A raw option is the flag name, followed by its value when it is written
\* name=value.
FlagName(option) == option[1]

\* mutant: nothing is rejected
ValidateAcceptsAll(flagSet, options) == nil

\* The first option whose flag name is not in the flag set is an error.
Validate(flagSet, options) ==
    LET bad == {k \in 1..Len(options) : FlagName(options[k]) \notin flagSet}
    IN IF bad = {} THEN nil
       ELSE <<"Unexpected flag", FlagName(options[CHOOSE k \in bad : \A m \in bad : k <= m])>>

NoArgs == << <<"(not invoked)">> >>

\* The gate: the raw options are checked against the operation's flag set
\* and handed to the tool only when the check passes.
BuildInvocation ==
    /\ gate = "input"
    /\ gate' = "done"
    /\ gateErr' = Validate(AllowedFlagSet(operation), rawOptions)
    /\ toolArgs' = IF gateErr' = nil THEN rawOptions ELSE NoArgs
    /\ UNCHANGED <<operation, rawOptions>>

\* flags nobody allows
UnknownFlags == {"--danger-flag", "--kubeconfig"}

RawOptionUniverse ==
    {<<name>> : name \in kappAllowedDeployFlagSet \cup kappAllowedInspectFlagSet
                         \cup kappAllowedDeleteFlagSet \cup UnknownFlags}
    \cup {<<"--wait-timeout", "5m">>, <<"--into-ns", "ns1">>, <<"--kubeconfig", "/x">>}

GateInit ==
    /\ operation \in Operations
    /\ rawOptions \in SeqsUpTo(RawOptionUniverse, MaxRawOptions)
    /\ gate = "input"
    /\ gateErr = nil
    /\ toolArgs = NoArgs

GateIdle ==
    /\ operation = "Deploy"
    /\ rawOptions = <<>>
    /\ gate = "idle"
    /\ gateErr = nil
    /\ toolArgs = NoArgs

GateNext == BuildInvocation

\* =============================================================== AppWatcher
\* A pointer is nil or holds one record.
Nil == <<>>
Ref(record) == <<record>>
Deref(pointer) == pointer[1]

\* metav1.Time: a number of ticks; Unix() is the whole seconds in it.
Times == 0..MaxTime
Unix(t) == t \div TicksPerSecond
After(t, u) == t > u

\* AppStage values
fetchStage == "fetch"
templateStage == "template"
deployStage == "deploy"
reconciled == "reconciled"
noStage == ""

ReconcileSucceeded == "ReconcileSucceeded"
Reconciling == "Reconciling"
ConditionTrue == "True"
ConditionFalse == "False"

\* printLogLine: the message and which field of the status is its block
LogLine(message, block) == [message |-> message, block |-> block]

\* mutant: only the first condition is looked at
hasReconciledFirstOnly(st) ==
    /\ Len(st.Conditions) > 0
    /\ st.Conditions[1].Type = ReconcileSucceeded
    /\ st.Conditions[1].Status = ConditionTrue

hasReconciled(st) ==
    \E k \in 1..Len(st.Conditions) :
        /\ st.Conditions[k].Type = ReconcileSucceeded
        /\ st.Conditions[k].Status = ConditionTrue

\* What a part of printTillCurrent leaves: the lines it printed, whether it
\* returned (and then the stage and error returned) or panicked.
Outcome(lines, returned, stage, err, panicked) ==
    [lines |-> lines, returned |-> returned, stage |-> stage, err |-> err,
     panicked |-> panicked]

\* printTillCurrent, the block for Fetch
printTillCurrentFetch(st) ==
    IF st.Fetch = Nil THEN Outcome(<<>>, FALSE, noStage, nil, FALSE)
    ELSE LET fetch == Deref(st.Fetch)
         IN IF fetch.ExitCode # 0 /\ Unix(fetch.UpdatedAt) >= Unix(fetch.StartedAt)
            THEN Outcome(<<LogLine("Fetch failed", "Fetch.Stderr")>>,
                         TRUE, fetchStage, <<"Fetch.Stderr">>, FALSE)
            ELSE IF After(fetch.StartedAt, fetch.UpdatedAt)
            THEN Outcome(<<LogLine("Fetch started", "")>>, TRUE, fetchStage, nil, FALSE)
            ELSE Outcome(<<LogLine("Fetch succeeded", "Fetch.Stdout")>>,
                         FALSE, noStage, nil, FALSE)

\* printTillCurrent, the block for Template; it reads Fetch.StartedAt, and
\* panics when Fetch is nil
printTillCurrentTemplate(st) ==
    IF st.Template = Nil THEN Outcome(<<>>, FALSE, noStage, nil, FALSE)
    ELSE IF st.Fetch = Nil THEN Outcome(<<>>, FALSE, noStage, nil, TRUE)
    ELSE LET fetch == Deref(st.Fetch)
             template == Deref(st.Template)
         IN IF template.ExitCode # 0 /\ Unix(fetch.StartedAt) < Unix(template.UpdatedAt)
            THEN Outcome(<<LogLine("Template failed", "Template.Stderr")>>,
                         TRUE, templateStage, <<"Template.Stderr">>, FALSE)
            ELSE IF After(fetch.StartedAt, template.UpdatedAt)
            THEN Outcome(<<LogLine("Template started", "")>>,
                         TRUE, templateStage, nil, FALSE)
            ELSE Outcome(<<LogLine("Template succeeded", "")>>, FALSE, noStage, nil, FALSE)

\* printTillCurrent, the block for Deploy and the final return
printTillCurrentDeploy(st) ==
    IF st.Deploy = Nil THEN Outcome(<<>>, TRUE, noStage, nil, FALSE)
    ELSE LET deploy == Deref(st.Deploy)
         IN IF deploy.ExitCode # 0 /\ Unix(deploy.StartedAt) < Unix(deploy.UpdatedAt)
            THEN Outcome(<<LogLine("Deploy failed", "Deploy.Stderr")>>,
                         TRUE, deployStage, <<"Deploy.Error">>, FALSE)
            ELSE IF hasReconciled(st)
            THEN Outcome(<<LogLine("Deploy succeeded", "Deploy.Stdout")>>,
                         TRUE, reconciled, nil, FALSE)
            ELSE Outcome(<<LogLine("Deploy started", "Deploy.Stdout")>>,
                         TRUE, noStage, nil, FALSE)

printTillCurrent(st) ==
    LET f == printTillCurrentFetch(st)
        t == printTillCurrentTemplate(st)
        d == printTillCurrentDeploy(st)
    IN IF f.returned \/ f.panicked THEN f
       ELSE IF t.returned \/ t.panicked THEN [t EXCEPT !.lines = f.lines \o @]
       ELSE [d EXCEPT !.lines = f.lines \o t.lines \o @]

\* TailAppStatus up to the start of the watch
TailAppStatus ==
    /\ tail = "start"
    /\ LET out == printTillCurrent(status)
       IN /\ printed' = printed \o out.lines
          /\ lastStage' = out.stage
          /\ IF out.panicked THEN tail' = "panicked" /\ tailErr' = nil
             ELSE IF out.err # nil THEN tail' = "returned" /\ tailErr' = out.err
             ELSE IF out.stage = reconciled THEN tail' = "returned" /\ tailErr' = nil
             ELSE tail' = "watching" /\ tailErr' = nil
    /\ UNCHANGED status

ExitCodes == {0, 1}

FetchStatuses == [ExitCode : ExitCodes, StartedAt : Times, UpdatedAt : Times]
TemplateStatuses == [ExitCode : ExitCodes, StartedAt : Times, UpdatedAt : Times]
DeployStatuses == [ExitCode : ExitCodes, StartedAt : Times, UpdatedAt : Times]

Pointers(S) == {Nil} \cup {Ref(record) : record \in S}

AppConditions == {[Type |-> ReconcileSucceeded, Status |-> ConditionTrue],
                  [Type |-> ReconcileSucceeded, Status |-> ConditionFalse],
                  [Type |-> Reconciling, Status |-> ConditionTrue]}

AppStatuses == [Fetch : Pointers(FetchStatuses),
                Template : Pointers(TemplateStatuses),
                Deploy : Pointers(DeployStatuses),
                Conditions : SeqsUpTo(AppConditions, MaxConditions)]

WatchInit ==
    /\ status \in AppStatuses
    /\ tail = "start"
    /\ tailErr = nil
    /\ lastStage = noStage
    /\ printed = <<>>

WatchIdle ==
    /\ status = [Fetch |-> Nil, Template |-> Nil, Deploy |-> Nil, Conditions |-> <<>>]
    /\ tail = "idle"
    /\ tailErr = nil
    /\ lastStage = noStage
    /\ printed = <<>>

WatchNext == TailAppStatus

\* ------------------------------------------ a direct caller of the Hooks
\* NewCRDApp: the CRDApp holds the resource as it was read from the store.
HooksInit ==
    /\ \E finalizers \in SeqsUpTo(FinalizerNames, MaxFinalizers) :
          /\ stored = [Finalizers |-> finalizers, Status |-> NoStatus, ResourceVersion |-> 1]
          /\ pkgrModel = [Finalizers |-> finalizers]
          /\ initialFinalizers = finalizers
    /\ appStatus = NoStatus
    /\ hook = "none"
    /\ hpc = "-"
    /\ existingRepo = NoRepo
    /\ i = 0
    /\ lastErr = nil
    /\ hookRet = [op |-> "none", err |-> nil]
    /\ attempts = 0
    /\ attemptErr = nil
    /\ okCalls = [op \in {"blockDeletion", "unblockDeletion", "updateStatus"} |-> 0]
    /\ ncalls = 0
    /\ otherWrites = 0
    /\ updates = 0

HooksIdle ==
    /\ stored = NoRepo
    /\ pkgrModel = [Finalizers |-> <<>>]
    /\ initialFinalizers = <<>>
    /\ appStatus = NoStatus
    /\ hook = "idle"
    /\ hpc = "-"
    /\ existingRepo = NoRepo
    /\ i = 0
    /\ lastErr = nil
    /\ hookRet = [op |-> "none", err |-> nil]
    /\ attempts = 0
    /\ attemptErr = nil
    /\ okCalls = [op \in {"blockDeletion", "unblockDeletion", "updateStatus"} |-> 0]
    /\ ncalls = 0
    /\ otherWrites = 0
    /\ updates = 0

CallBlockDeletion == ncalls < MaxCalls /\ ncalls' = ncalls + 1 /\ blockDeletion
CallUnblockDeletion == ncalls < MaxCalls /\ ncalls' = ncalls + 1 /\ unblockDeletion
CallUpdateStatus ==
    ncalls < MaxCalls /\ ncalls' = ncalls + 1 /\ updateStatus /\ UNCHANGED appStatus
HookGet == UNCHANGED ncalls /\ (updatePackageRepositoryGet \/ updateStatusOnceGet)
HookUpdate == UNCHANGED ncalls /\ (updatePackageRepositoryUpdate \/ updateStatusOnceUpdate)
OtherClientWrites == UNCHANGED ncalls /\ OtherWriter

HooksNext ==
    \/ CallBlockDeletion
    \/ CallUnblockDeletion
    \/ CallUpdateStatus
    \/ HookGet
    \/ HookUpdate
    \/ OtherClientWrites

\* ================================================== reconciliation engine
NoRun == [Fetch |-> "none", Template |-> "none", Deploy |-> "none", Delete |-> "none"]

\* mutant: every result counts as a success
OutcomesAlwaysOk(exitCode) == "ok"

Outcomes(exitCode) == IF exitCode = 0 THEN "ok" ELSE "failed"

\* The status a stage adapter's result is recorded as.
StageStatus(exitCode) ==
    Ref([ExitCode |-> exitCode, StartedAt |-> reconciles, UpdatedAt |-> reconciles])

\* Reconcile on entry: the delete path for a resource marked for deletion,
\* BlockDeletion before any work otherwise.
Reconcile ==
    /\ pc = "idle"
    /\ hook = "none"
    /\ reconciles < MaxReconciles
    /\ reconciles' = reconciles + 1
    /\ run' = NoRun
    /\ reconcileErr' = nil
    /\ IF deleting
       THEN /\ pc' = "delete"
            /\ UNCHANGED hookVars
       ELSE /\ pc' = "blocked"
            /\ blockDeletion
            /\ UNCHANGED ncalls
    /\ UNCHANGED deleting

\* A stage is run, its result recorded in the engine's status and
\* Hooks.UpdateStatus called.
RunStage(stage, exitCode) ==
    /\ run' = [run EXCEPT ![stage] = Outcomes(exitCode)]
    /\ appStatus' = [appStatus EXCEPT ![IF stage = "Delete" THEN "Deploy" ELSE stage] =
                                          StageStatus(exitCode)]
    /\ updateStatus
    /\ UNCHANGED <<ncalls, deleting, reconciles, reconcileErr>>

ReconcileFetch ==
    /\ pc = "blocked"
    /\ hook = "none"
    /\ hookRet.err = nil
    /\ pc' = "fetched"
    /\ \E exitCode \in {0, 1} : RunStage("Fetch", exitCode)

ReconcileTemplate ==
    /\ pc = "fetched"
    /\ hook = "none"
    /\ hookRet.err = nil
    /\ run.Fetch = "ok"
    /\ pc' = "templated"
    /\ \E exitCode \in {0, 1} : RunStage("Template", exitCode)

ReconcileDeploy ==
    /\ pc = "templated"
    /\ hook = "none"
    /\ hookRet.err = nil
    /\ run.Template = "ok"
    /\ pc' = "deployed"
    /\ \E exitCode \in {0, 1} : RunStage("Deploy", exitCode)

\* The counters after a terminal success or failure.
setReconcileCompleted(st, succeeded) ==
    IF succeeded
    THEN [st EXCEPT !.ConsecutiveReconcileSuccesses = @ + 1,
                    !.ConsecutiveReconcileFailures = 0]
    ELSE [st EXCEPT !.ConsecutiveReconcileFailures = @ + 1,
                    !.ConsecutiveReconcileSuccesses = 0]

\* The run ends: after Deploy, after a failed stage or after a status that
\* could not be persisted. The counters are set and the status persisted.
ReconcileCompleted ==
    /\ pc \in {"fetched", "templated", "deployed"}
    /\ hook = "none"
    /\ \/ hookRet.err # nil
       \/ pc = "fetched" /\ run.Fetch = "failed"
       \/ pc = "templated" /\ run.Template = "failed"
       \/ pc = "deployed"
    /\ pc' = "completing"
    /\ reconcileErr' = IF hookRet.err # nil THEN hookRet.err
                       ELSE IF "failed" \in {run.Fetch, run.Template, run.Deploy}
                       THEN <<"stage failed">>
                       ELSE nil
    /\ appStatus' = setReconcileCompleted(appStatus, reconcileErr' = nil)
    /\ updateStatus
    /\ UNCHANGED <<ncalls, deleting, reconciles, run>>

\* The delete path of the Deploy stage.
ReconcileDelete ==
    /\ pc = "delete"
    /\ hook = "none"
    /\ pc' = "deleted"
    /\ \E exitCode \in {0, 1} : RunStage("Delete", exitCode)

\* After a successful delete whose status was persisted: UnblockDeletion.
ReconcileUnblock ==
    /\ pc = "deleted"
    /\ hook = "none"
    /\ hookRet.err = nil
    /\ run.Delete = "ok"
    /\ pc' = "unblocking"
    /\ unblockDeletion
    /\ UNCHANGED <<ncalls, deleting, reconciles, run, reconcileErr>>

\* Reconcile returns.
ReconcileReturn ==
    /\ hook = "none"
    /\ \/ /\ pc \in {"completing", "unblocking"}
          /\ reconcileErr' = IF hookRet.err # nil THEN hookRet.err ELSE reconcileErr
       \/ /\ pc = "blocked"
          /\ hookRet.err # nil
          /\ reconcileErr' = hookRet.err
       \/ /\ pc = "deleted"
          /\ hookRet.err # nil \/ run.Delete = "failed"
          /\ reconcileErr' = IF hookRet.err # nil THEN hookRet.err ELSE <<"stage failed">>
    /\ pc' = "idle"
    /\ UNCHANGED <<hookVars, deleting, reconciles, run>>

\* The counters a persisted status starts with.
InitialCounters == {<<0, 0>>, <<1, 0>>, <<0, 1>>}

\* The finalizer lists the engine is started on.
EngineFinalizers == {<<>>, <<deleteFinalizerName>>, <<deletePrevFinalizerName>>}

EngineInit ==
    /\ \E finalizers \in EngineFinalizers, counters \in InitialCounters :
          LET st == [NoStatus EXCEPT !.ConsecutiveReconcileSuccesses = counters[1],
                                     !.ConsecutiveReconcileFailures = counters[2]]
          IN /\ stored = [Finalizers |-> finalizers, Status |-> st, ResourceVersion |-> 1]
             /\ pkgrModel = [Finalizers |-> finalizers]
             /\ initialFinalizers = finalizers
             /\ appStatus = st
    /\ hook = "none"
    /\ hpc = "-"
    /\ existingRepo = NoRepo
    /\ i = 0
    /\ lastErr = nil
    /\ hookRet = [op |-> "none", err |-> nil]
    /\ attempts = 0
    /\ attemptErr = nil
    /\ okCalls = [op \in {"blockDeletion", "unblockDeletion", "updateStatus"} |-> 0]
    /\ ncalls = 0
    /\ otherWrites = 0
    /\ updates = 0
    /\ pc = "idle"
    /\ deleting \in BOOLEAN
    /\ reconciles = 0
    /\ run = NoRun
    /\ reconcileErr = nil

EngineIdle ==
    /\ pc = "off"
    /\ deleting = FALSE
    /\ reconciles = 0
    /\ run = NoRun
    /\ reconcileErr = nil

EngineNext ==
    \/ Reconcile
    \/ ReconcileFetch
    \/ ReconcileTemplate
    \/ ReconcileDeploy
    \/ ReconcileCompleted
    \/ ReconcileDelete
    \/ ReconcileUnblock
    \/ ReconcileReturn
    \/ (HookGet /\ UNCHANGED engineVars)
    \/ (HookUpdate /\ UNCHANGED engineVars)
    \/ (OtherClientWrites /\ UNCHANGED engineVars)


\* ------------------------------------------------- AppWatcher: the watch
\* What printUpdate does, in order: a log line, a call of stopWatch, or the
\* read of a field of a nil stage.
Effect(kind, message, block) == [kind |-> kind, message |-> message, block |-> block]
PrintEffect(message, block) == Effect("print", message, block)
StopEffect == Effect("stopWatch", "", "")
NilDereference == Effect("nil dereference", "", "")

\* printUpdate, the block for Fetch
printUpdateFetch(oldStatus, st) ==
    IF st.Fetch = Nil THEN <<>>
    ELSE LET fetch == Deref(st.Fetch)
             started ==
                 IF oldStatus.Fetch = Nil
                    \/ (Deref(oldStatus.Fetch).StartedAt # fetch.StartedAt
                           /\ Unix(fetch.UpdatedAt) <= Unix(fetch.StartedAt))
                 THEN <<PrintEffect("Fetch started", "")>>
                 ELSE <<>>
             failed ==
                 IF fetch.ExitCode # 0 /\ Unix(fetch.UpdatedAt) >= Unix(fetch.StartedAt)
                 THEN IF st.Template = Nil THEN <<NilDereference>>
                      ELSE <<PrintEffect("Fetch failed", "Template.Stderr"), StopEffect>>
                 ELSE <<>>
             updated ==
                 IF oldStatus.Fetch = Nil \/ Deref(oldStatus.Fetch).UpdatedAt # fetch.UpdatedAt
                 THEN failed \o <<PrintEffect("Fetch succeeded", "Fetch.Stdout")>>
                 ELSE <<>>
         IN started \o updated

\* printUpdate, the block for Template
printUpdateTemplate(oldStatus, st) ==
    IF st.Template = Nil THEN <<>>
    ELSE LET template == Deref(st.Template)
             failed ==
                 IF template.ExitCode # 0
                 THEN <<PrintEffect("Template failed", "Template.Stderr"), StopEffect>>
                 ELSE <<>>
         IN IF oldStatus.Template = Nil
               \/ Deref(oldStatus.Template).UpdatedAt # template.UpdatedAt
            THEN failed \o <<PrintEffect("Template succeeded", "")>>
            ELSE <<>>

\* printUpdate, the block for Deploy; its failure test reads Template
printUpdateDeploy(oldStatus, st) ==
    IF st.Deploy = Nil THEN <<>>
    ELSE LET deploy == Deref(st.Deploy)
             started ==
                 IF oldStatus.Deploy = Nil
                    \/ Deref(oldStatus.Deploy).StartedAt # deploy.StartedAt
                 THEN <<PrintEffect("Deploy started", "")>>
                 ELSE <<>>
             failed ==
                 IF st.Template = Nil THEN <<NilDereference>>
                 ELSE IF Deref(st.Template).ExitCode # 0 /\ deploy.Finished
                 THEN <<PrintEffect("Deploy failed", "Deploy.Stderr"), StopEffect>>
                 ELSE <<>>
             updated ==
                 IF oldStatus.Deploy = Nil
                    \/ Deref(oldStatus.Deploy).UpdatedAt # deploy.UpdatedAt
                 THEN failed \o <<PrintEffect("Deploy progressing", "Deploy.Stdout")>>
                 ELSE <<>>
         IN started \o updated

\* printUpdate, the final test
printUpdateReconciled(st) ==
    IF hasReconciled(st) THEN <<PrintEffect("App reconciled", ""), StopEffect>> ELSE <<>>

printUpdate(oldStatus, st) ==
    printUpdateFetch(oldStatus, st) \o printUpdateTemplate(oldStatus, st)
        \o printUpdateDeploy(oldStatus, st) \o printUpdateReconciled(st)

\* stopWatch: close(o.stopperChan); closing a closed channel panics
stopWatch(chan) == IF chan = "open" THEN "closed" ELSE "panic"

\* The effects are carried out one after the other until one panics.
RECURSIVE Execute(_, _)
Execute(effects, exec) ==
    IF effects = <<>> \/ exec.panic # "" THEN exec
    ELSE LET e == Head(effects)
             next ==
                 CASE e.kind = "print" ->
                        [exec EXCEPT !.lines = Append(@, LogLine(e.message, e.block))]
                   [] e.kind = "stopWatch" ->
                        IF stopWatch(exec.chan) = "panic"
                        THEN [exec EXCEPT !.closes = @ + 1,
                                          !.panic = "close of closed channel"]
                        ELSE [exec EXCEPT !.closes = @ + 1, !.chan = stopWatch(exec.chan)]
                   [] e.kind = "nil dereference" ->
                        [exec EXCEPT !.panic = "nil dereference"]
         IN Execute(Tail(effects), next)

Reports(lines) ==
    {"failed" : k \in {m \in 1..Len(lines) :
                          lines[m].message \in {"Fetch failed", "Template failed",
                                                "Deploy failed"}}}
    \cup {"reconciled" : k \in {m \in 1..Len(lines) : lines[m].message = "App reconciled"}}

\* udpateEventhandler: the informer calls it with the old and the new App
udpateEventhandler(oldStatus, newStatus) ==
    LET exec == Execute(printUpdate(oldStatus, newStatus),
                        [lines |-> <<>>, chan |-> stopperChan, closes |-> closes,
                         panic |-> ""])
    IN /\ updateLines' = exec.lines
       /\ stopperChan' = exec.chan
       /\ closes' = exec.closes
       /\ observed' = observed \cup Reports(exec.lines)
       /\ panicMsg' = exec.panic
       /\ tail' = IF exec.panic # "" THEN "panicked" ELSE tail

\* The statuses of the App the watch is run on: each stage absent,
\* succeeded or failed.
T0 == 0
T1 == TicksPerSecond

TailFetchStatuses ==
    {Nil, Ref([ExitCode |-> 0, StartedAt |-> T0, UpdatedAt |-> T1]),
          Ref([ExitCode |-> 1, StartedAt |-> T0, UpdatedAt |-> T1])}

TailTemplateStatuses ==
    {Nil, Ref([ExitCode |-> 0, StartedAt |-> T0, UpdatedAt |-> T1]),
          Ref([ExitCode |-> 1, StartedAt |-> T0, UpdatedAt |-> T1])}

TailDeployStatuses ==
    {Nil, Ref([ExitCode |-> 0, StartedAt |-> T0, UpdatedAt |-> T1, Finished |-> TRUE]),
          Ref([ExitCode |-> 1, StartedAt |-> T0, UpdatedAt |-> T1, Finished |-> TRUE])}

TailConditions == {<<>>, <<[Type |-> ReconcileSucceeded, Status |-> ConditionTrue]>>}

TailStatuses == [Fetch : TailFetchStatuses, Template : TailTemplateStatuses,
                 Deploy : TailDeployStatuses, Conditions : TailConditions]

\* TailAppStatus up to the start of the watch, lines 185-192
TailStart ==
    /\ panicMsg = ""
    /\ TailAppStatus
    /\ panicMsg' = IF tail' = "panicked" THEN "nil dereference" ELSE ""
    /\ UNCHANGED <<appNow, stopperChan, informer, synced, updateLines, closes, observed>>

\* The App changes after TailAppStatus has looked at its snapshot and before
\* the informer has listed it: the informer gives no update event for such a
\* change.
AppChangesUnseen ==
    /\ panicMsg = ""
    /\ tail \in {"watching", "syncing"}
    /\ ~synced
    /\ \E newStatus \in TailStatuses \ {appNow} : appNow' = newStatus
    /\ UNCHANGED <<watchVars, stopperChan, informer, synced, updateLines, closes, observed,
                   panicMsg>>

\* TailAppStatus lines 194-206: the channel is made, the handler added and
\* the informer started
TailRegister ==
    /\ tail = "watching"
    /\ tail' = "syncing"
    /\ stopperChan' = "open"
    /\ informer' = "running"
    /\ UNCHANGED <<status, tailErr, lastStage, printed>>
    /\ UNCHANGED <<appNow, synced, updateLines, closes, observed, panicMsg>>

\* The informer has listed the App; a listed App is an add event, for which
\* no handler is registered.
InformerSync ==
    /\ panicMsg = ""
    /\ informer = "running"
    /\ ~synced
    /\ synced' = TRUE
    /\ UNCHANGED <<watchVars, appNow, stopperChan, informer, updateLines, closes, observed,
                   panicMsg>>

\* TailAppStatus line 207: WaitForCacheSync returns true once the informer
\* has synced and false once the channel is closed, whichever it sees first
WaitForCacheSync ==
    /\ tail = "syncing"
    /\ \/ /\ synced
          /\ tail' = "waiting"
          /\ tailErr' = tailErr
       \/ /\ stopperChan = "closed"
          /\ tail' = "returned"
          /\ tailErr' = <<"Timed out waiting for caches to sync">>
    /\ UNCHANGED <<status, lastStage, printed, tailVars>>

\* TailAppStatus lines 210-211: the receive from the closed channel
TailReturn ==
    /\ tail = "waiting"
    /\ stopperChan = "closed"
    /\ tail' = "returned"
    /\ tailErr' = nil
    /\ UNCHANGED <<status, lastStage, printed, tailVars>>

InformerDelivers == panicMsg = "" /\ informer = "running" /\ synced /\ tail # "returned"

\* The App changes and the informer calls the handler with old and new.
AppUpdate ==
    /\ InformerDelivers
    /\ \E newStatus \in TailStatuses \ {appNow} :
          /\ appNow' = newStatus
          /\ udpateEventhandler(appNow, newStatus)
    /\ UNCHANGED <<status, tailErr, lastStage, printed, informer, synced>>

\* The informer's resync calls the handler with the App as old and as new.
Resync ==
    /\ InformerDelivers
    /\ udpateEventhandler(appNow, appNow)
    /\ UNCHANGED <<status, tailErr, lastStage, printed, appNow, informer, synced>>

\* The informer sees its stop channel closed and stops.
InformerStops ==
    /\ panicMsg = ""
    /\ informer = "running"
    /\ stopperChan = "closed"
    /\ informer' = "stopped"
    /\ UNCHANGED <<watchVars, appNow, stopperChan, synced, updateLines, closes, observed,
                   panicMsg>>

TailInit ==
    /\ status \in TailStatuses
    /\ tail = "start"
    /\ tailErr = nil
    /\ lastStage = noStage
    /\ printed = <<>>
    /\ appNow = status
    /\ stopperChan = "nil"
    /\ informer = "off"
    /\ synced = FALSE
    /\ updateLines = <<>>
    /\ closes = 0
    /\ observed = {}
    /\ panicMsg = ""

TailIdle ==
    /\ appNow = [Fetch |-> Nil, Template |-> Nil, Deploy |-> Nil, Conditions |-> <<>>]
    /\ stopperChan = "nil"
    /\ informer = "off"
    /\ synced = FALSE
    /\ updateLines = <<>>
    /\ closes = 0
    /\ observed = {}
    /\ panicMsg = "idle"

TailSteps ==
    \/ TailStart
    \/ TailRegister
    \/ InformerSync
    \/ WaitForCacheSync
    \/ TailReturn
    \/ Resync
    \/ InformerStops

TailNext ==
    \/ TailSteps
    \/ AppChangesUnseen
    \/ AppUpdate

vars == <<hookVars, gateVars, watchVars, engineVars, tailVars>>

\* The Hooks of a CRDApp under a caller that may call them in any order.
Init == HooksInit /\ GateIdle /\ WatchIdle /\ EngineIdle /\ TailIdle
Next == HooksNext /\ UNCHANGED <<gateVars, watchVars, engineVars, tailVars>>
Spec == Init /\ [][Next]_vars

\* The flag gate applied to one list of raw options.
InitGate == GateInit /\ HooksIdle /\ WatchIdle /\ EngineIdle /\ TailIdle
NextGate == GateNext /\ UNCHANGED <<hookVars, watchVars, engineVars, tailVars>>
SpecGate == InitGate /\ [][NextGate]_vars

\* TailAppStatus given one App status.
InitWatch == WatchInit /\ HooksIdle /\ GateIdle /\ EngineIdle /\ TailIdle
NextWatch == WatchNext /\ UNCHANGED <<hookVars, gateVars, engineVars, tailVars>>
SpecWatch == InitWatch /\ [][NextWatch]_vars

\* Reconcile of the engine of one CRDApp, the Hooks called by the engine.
InitEngine == EngineInit /\ GateIdle /\ WatchIdle /\ TailIdle
NextEngine == EngineNext /\ UNCHANGED <<gateVars, watchVars, tailVars>>
SpecEngine == InitEngine /\ [][NextEngine]_vars

\* TailAppStatus on an App that changes while it is watched.
InitTail == TailInit /\ HooksIdle /\ GateIdle /\ EngineIdle
NextTail == TailNext /\ UNCHANGED <<hookVars, gateVars, engineVars>>
SpecTail == InitTail /\ [][NextTail]_vars

\* The same with every step of TailAppStatus and of the informer taken
\* eventually, the resync included; the App itself changes when it likes.
SpecTailFair ==
    /\ InitTail
    /\ [][NextTail]_vars
    /\ WF_vars(TailStart /\ UNCHANGED <<hookVars, gateVars, engineVars>>)
    /\ WF_vars(TailRegister /\ UNCHANGED <<hookVars, gateVars, engineVars>>)
    /\ WF_vars(InformerSync /\ UNCHANGED <<hookVars, gateVars, engineVars>>)
    /\ WF_vars(WaitForCacheSync /\ UNCHANGED <<hookVars, gateVars, engineVars>>)
    /\ WF_vars(TailReturn /\ UNCHANGED <<hookVars, gateVars, engineVars>>)
    /\ WF_vars(Resync /\ UNCHANGED <<hookVars, gateVars, engineVars>>)
    /\ WF_vars(InformerStops /\ UNCHANGED <<hookVars, gateVars, engineVars>>)

\* ================================================================ claims

\* C1: updateStatus makes at most 5 fetch-modify-write attempts; it returns
\* nil at the first attempt that succeeds (no further attempt is made), and
\* when all 5 attempts fail it returns the error of the 5th attempt.
C1_UpdateStatusRetry ==
    /\ attempts <= 5
    /\ hook = "updateStatus" =>
          /\ attempts < 5
          /\ attempts > 0 => attemptErr # nil
    /\ (hookRet.op = "updateStatus" /\ hook # "updateStatus") =>
          /\ attempts \in 1..5
          /\ hookRet.err = attemptErr
          /\ hookRet.err # nil => attempts = 5

\* C1 witness: four failed attempts, then success on the fifth.
C1_Witness ==
    /\ hook = "none"
    /\ hookRet = [op |-> "updateStatus", err |-> nil]
    /\ attempts = 5

C2_CountOf(slice, s) == Cardinality({k \in 1..Len(slice) : slice[k] = s})

C3_UnblockRemovesBoth ==
    hookRet = [op |-> "unblockDeletion", err |-> nil] =>
        /\ ~containsString(stored.Finalizers, deleteFinalizerName)
        /\ ~containsString(stored.Finalizers, deletePrevFinalizerName)

\* C3 witness: a successful UnblockDeletion of a resource that held both.
C3_Witness ==
    /\ hookRet = [op |-> "unblockDeletion", err |-> nil]
    /\ containsString(initialFinalizers, deleteFinalizerName)
    /\ containsString(initialFinalizers, deletePrevFinalizerName)

\* C4: the flag gate is all-or-nothing. For each operation and every list of
\* raw options: if some flag name is not in the operation's allow-list the
\* invocation is rejected with an error naming such a flag (the first one)
\* and nothing reaches the tool; otherwise the options are accepted and
\* reach the tool unchanged, same flags, same order, none dropped.
C4_GateAllOrNothing ==
    gate = "done" =>
        LET bad == {k \in 1..Len(rawOptions) :
                        FlagName(rawOptions[k]) \notin AllowedFlagSet(operation)}
        IN IF bad # {}
           THEN /\ gateErr # nil
                /\ \E k \in bad :
                      /\ gateErr[Len(gateErr)] = FlagName(rawOptions[k])
                      /\ \A m \in bad : k <= m
                /\ toolArgs = NoArgs
           ELSE /\ gateErr = nil
                /\ toolArgs = rawOptions

\* C4 witness: Deploy with --wait and --danger-flag is rejected, the error
\* naming --danger-flag.
C4_Witness ==
    /\ gate = "done"
    /\ operation = "Deploy"
    /\ rawOptions = << <<"--wait">>, <<"--danger-flag">> >>
    /\ gateErr = <<"Unexpected flag", "--danger-flag">>
    /\ toolArgs = NoArgs

\* what C5 says each operation allows
C5_Mutates(op) == op \in {"Deploy", "Delete"}
C5_Specific(op) ==
    CASE op = "Deploy" -> Range(kappDeployOnlyOpts)
      [] op = "Inspect" -> Range(kappInspectOnlyOpts)
      [] op = "Delete" -> {}
C5_AllowList(op) ==
    Range(kappAllowedSharedOpts)
    \cup (IF C5_Mutates(op) THEN Range(kappAllowedChangeOpts) ELSE {})
    \cup C5_Specific(op)

\* C5: each operation's allow-list is exactly the shared flags, plus the
\* change flags when the operation mutates cluster state (Deploy, Delete),
\* plus its own flags (none for Delete): the gate accepts a list of options
\* exactly when every flag name is in that set. --wait passes for Deploy and
\* Delete and not for Inspect, --into-ns passes for Deploy only.
C5_AllowLists ==
    gate = "done" =>
        /\ (gateErr = nil) <=>
              (\A k \in 1..Len(rawOptions) :
                   FlagName(rawOptions[k]) \in C5_AllowList(operation))
        /\ rawOptions = << <<"--wait">> >> => ((gateErr = nil) <=> operation # "Inspect")
        /\ rawOptions = << <<"--into-ns">> >> => ((gateErr = nil) <=> operation = "Deploy")

\* C5 witness: Inspect rejects --wait.
C5_Witness ==
    /\ gate = "done"
    /\ operation = "Inspect"
    /\ rawOptions = << <<"--wait">> >>
    /\ gateErr = <<"Unexpected flag", "--wait">>

\* what C6 and C7 call failed and in progress: a stage's own timestamps
C6_Failed(stage) == stage.ExitCode # 0 /\ ~(stage.UpdatedAt < stage.StartedAt)
C6_InProgress(stage) == stage.UpdatedAt < stage.StartedAt
C6_Printed(message) == \E k \in 1..Len(printed) : printed[k].message = message
C6_Reported(name) ==
    C6_Printed(name \o " failed") \/ C6_Printed(name \o " started")
        \/ C6_Printed(name \o " succeeded")

\* C6: for each of Fetch, Template and Deploy that printTillCurrent reports
\* on, it reports the stage failed if and only if the stage's ExitCode is
\* non-zero and the stage's own UpdatedAt is not earlier than its own
\* StartedAt (equal counts as failed); a failure whose UpdatedAt is earlier
\* than StartedAt is stale and is reported as started, not failed.
C6_StageFailedIff ==
    tail \in {"returned", "watching"} =>
        /\ C6_Reported("Fetch") =>
              (C6_Printed("Fetch failed") <=> C6_Failed(Deref(status.Fetch)))
        /\ C6_Reported("Template") =>
              (C6_Printed("Template failed") <=> C6_Failed(Deref(status.Template)))
        /\ C6_Reported("Deploy") =>
              (C6_Printed("Deploy failed") <=> C6_Failed(Deref(status.Deploy)))

C7_Unresolved(pointer) ==
    pointer # Nil /\ (C6_Failed(Deref(pointer)) \/ C6_InProgress(Deref(pointer)))

\* C7: printTillCurrent stops at the earliest stage that is failed or in
\* progress and returns that stage; it prints or returns no Template or
\* Deploy outcome while Fetch is failed or in progress, and no Deploy outcome
\* while Template is failed or in progress. (Stated for Fetch and Template,
\* the stages that have a later one.)
C7_Monotonic ==
    tail \in {"returned", "watching"} =>
        /\ C7_Unresolved(status.Fetch) =>
              /\ lastStage = fetchStage
              /\ ~C6_Reported("Template") /\ ~C6_Reported("Deploy")
        /\ (~C7_Unresolved(status.Fetch) /\ C7_Unresolved(status.Template)) =>
              /\ lastStage = templateStage
              /\ ~C6_Reported("Deploy")

C8_HasCondition ==
    \E k \in 1..Len(status.Conditions) :
        status.Conditions[k] = [Type |-> "ReconcileSucceeded", Status |-> "True"]

\* C8 as stated: for every status, printTillCurrent returns the reconciled
\* stage exactly when the status has a condition ReconcileSucceeded with
\* status true.
C8_Original ==
    tail \in {"returned", "watching"} => (lastStage = reconciled <=> C8_HasCondition)

\* C8 amended: printTillCurrent returns the reconciled stage (and
\* TailAppStatus then returns nil at once, without watching) exactly when
\* the status has a condition ReconcileSucceeded with status true, at any
\* position of Conditions, and Deploy is present and no stage has been
\* reported failed or started before the end of the Deploy block; without
\* the condition it never does.
C8_ReconciledIff ==
    tail \in {"returned", "watching"} =>
        /\ lastStage = reconciled <=>
              /\ C8_HasCondition
              /\ status.Deploy # Nil
              /\ ~C6_Printed("Fetch failed") /\ ~C6_Printed("Fetch started")
              /\ ~C6_Printed("Template failed") /\ ~C6_Printed("Template started")
              /\ ~C6_Printed("Deploy failed")
        /\ lastStage = reconciled => (tail = "returned" /\ tailErr = nil)
        /\ (lastStage # reconciled /\ tailErr = nil) => tail = "watching"

\* C8 witness: the condition is the second of two and the App is reported
\* reconciled.
C8_Witness ==
    /\ tail = "returned"
    /\ lastStage = reconciled
    /\ Len(status.Conditions) = 2
    /\ status.Conditions[1].Type # "ReconcileSucceeded"
    /\ status.Conditions[2] = [Type |-> "ReconcileSucceeded", Status |-> "True"]

C9_BothNonZero(st) ==
    st.ConsecutiveReconcileSuccesses # 0 /\ st.ConsecutiveReconcileFailures # 0

\* C9: whatever the reconcile outcomes, ConsecutiveReconcileSuccesses and
\* ConsecutiveReconcileFailures are never both non-zero, neither in the
\* engine's status nor in a status persisted by UpdateStatus; a terminal
\* success leaves the failure counter zero and the success counter
\* positive, a terminal failure the reverse.
C9_CountersExclusive ==
    /\ ~C9_BothNonZero(appStatus)
    /\ ~C9_BothNonZero(stored.Status)
    /\ pc = "completing" =>
          IF reconcileErr = nil
          THEN /\ appStatus.ConsecutiveReconcileSuccesses > 0
               /\ appStatus.ConsecutiveReconcileFailures = 0
          ELSE /\ appStatus.ConsecutiveReconcileFailures > 0
               /\ appStatus.ConsecutiveReconcileSuccesses = 0
    /\ (okCalls["updateStatus"] > 0 /\ hook = "none" /\ hookRet.op = "updateStatus"
          /\ hookRet.err = nil) =>
          /\ stored.Status.ConsecutiveReconcileSuccesses =
                appStatus.ConsecutiveReconcileSuccesses
          /\ stored.Status.ConsecutiveReconcileFailures =
                appStatus.ConsecutiveReconcileFailures

\* C9 witness: a terminal failure after a streak of successes: the engine
\* counts one failure and no success while the store still holds the
\* streak, and UpdateStatus is about to persist the new counters.
C9_Witness ==
    /\ pc = "completing"
    /\ hook = "updateStatus"
    /\ "failed" \in {run.Fetch, run.Template, run.Deploy}
    /\ appStatus.ConsecutiveReconcileFailures = 1
    /\ appStatus.ConsecutiveReconcileSuccesses = 0
    /\ stored.Status.ConsecutiveReconcileSuccesses = 1

\* C10: within one Reconcile the stages run in the order Fetch, Template,
\* Deploy and a failure stops the run: Template is invoked only after Fetch
\* succeeded, Deploy only after Fetch and Template succeeded; and a stage is
\* started only when the status of its predecessor has been persisted
\* through Hooks.UpdateStatus.
C10_StageOrder ==
    /\ run.Template # "none" => run.Fetch = "ok"
    /\ run.Deploy # "none" => (run.Fetch = "ok" /\ run.Template = "ok")
    /\ run.Template # "none" => stored.Status.Fetch = appStatus.Fetch
    /\ run.Deploy # "none" => stored.Status.Template = appStatus.Template

\* C10 witness: all three stages have run in one Reconcile.
C10_Witness ==
    /\ pc = "deployed"
    /\ run.Fetch = "ok" /\ run.Template = "ok" /\ run.Deploy # "none"
    /\ stored.Status.Template # Nil

C11_StageRuns == run'.Fetch # run.Fetch \/ run'.Template # run.Template
                    \/ run'.Deploy # run.Deploy

\* C11: in Reconcile of a resource not marked for deletion, Hooks.BlockDeletion
\* has been called and has returned before the first stage is invoked, and
\* neither the delete path nor UnblockDeletion runs; in Reconcile of a
\* resource marked for deletion no stage other than the delete path of Deploy
\* runs, BlockDeletion is not called, and UnblockDeletion is called only
\* after that delete ended with exit code 0, never after a failed delete.
C11_FinalizerOrdering ==
    /\ [](~deleting => (run.Delete = "none" /\ hook # "unblockDeletion"))
    /\ [](deleting => (run.Fetch = "none" /\ run.Template = "none" /\ run.Deploy = "none"
                          /\ hook # "blockDeletion"))
    /\ [][/\ (C11_StageRuns /\ run.Fetch = "none" /\ run'.Fetch # "none") =>
                 (pc = "blocked" /\ hookRet = [op |-> "blockDeletion", err |-> nil])
          /\ (C11_StageRuns /\ run'.Fetch = "none") => run' = NoRun
          /\ (hook # "unblockDeletion" /\ hook' = "unblockDeletion") =>
                 /\ run.Delete = "ok"
                 /\ appStatus.Deploy # Nil
                 /\ Deref(appStatus.Deploy).ExitCode = 0]_vars

\* C11 witness: the delete succeeded and UnblockDeletion is running.
C11_Witness ==
    /\ deleting
    /\ pc = "unblocking"
    /\ hook = "unblockDeletion"
    /\ run.Delete = "ok"

\* C12: BlockDeletion issues no write when the persisted resource already
\* carries the delete finalizer: called in such a state (also right after a
\* successful BlockDeletion of the same CRDApp) it returns success at once
\* instead of going on to updatePackageRepository, and no Update is issued by
\* a BlockDeletion while the persisted resource carries the finalizer.
C12_NoWriteWhenPresent ==
    [][/\ (hook = "none" /\ hook' = "blockDeletion") =>
              ~containsString(stored.Finalizers, deleteFinalizerName)
       /\ (hook = "blockDeletion" /\ updates' # updates) =>
              ~containsString(stored.Finalizers, deleteFinalizerName)]_vars

\* C13: every attempt of UpdateStatus writes onto the version it has just
\* fetched: a step of UpdateStatus that changes the persisted resource
\* leaves its finalizers as they are in the store at that moment (a change
\* made by another writer since the call began included), sets the status to
\* the engine's status and is based on the current version; a write based on
\* a stale version changes nothing and the next attempt starts with a Get.
C13_StatusOnlyWrite ==
    [][(hook = "updateStatus" /\ otherWrites' = otherWrites) =>
          /\ stored' # stored =>
                /\ stored'.Finalizers = stored.Finalizers
                /\ stored'.Status = updateStatusOnceStatus(appStatus)
                /\ existingRepo.ResourceVersion = stored.ResourceVersion
          /\ (hpc = "update" /\ existingRepo.ResourceVersion # stored.ResourceVersion) =>
                /\ stored' = stored
                /\ attemptErr' # nil
                /\ hook' = "updateStatus" => hpc' = "get"]_vars

\* C13 witness: another client changed the finalizers, an attempt failed and
\* a later attempt persisted the engine's status; the other client's
\* finalizer is still there.
C13_Witness ==
    /\ hook = "none"
    /\ hookRet = [op |-> "updateStatus", err |-> nil]
    /\ attempts >= 2
    /\ otherWrites = 1
    /\ containsString(stored.Finalizers, otherFinalizerName)
    /\ stored.Status.Fetch # Nil
    /\ stored.Status = updateStatusOnceStatus(appStatus)

\* C14: the finalizer writes of BlockDeletion and UnblockDeletion retry on a
\* conflict: a BlockDeletion or UnblockDeletion that returns the store's
\* conflict has issued its Update more than once.
C14_FinalizerWritesRetry ==
    (hook = "none" /\ hookRet.op \in {"blockDeletion", "unblockDeletion"}
        /\ hookRet.err = Errorf("Updating PackageRepository", <<"conflict">>)) =>
        updates >= 2

\* C15: a failure inside BlockDeletion or UnblockDeletion is surfaced and
\* leaves no partial state. A step of the hook changes the persisted
\* resource only by the one Update that applies the whole change to the
\* current finalizer list, and then the hook returns nil; when the Get or
\* the Update fails the hook returns a non-nil error and the persisted
\* resource is what it was.
C15_NoPartialFinalizerState ==
    [][(hook \in {"blockDeletion", "unblockDeletion"} /\ otherWrites' = otherWrites) =>
          /\ stored' # stored =>
                /\ hook' = "none"
                /\ hookRet' = [op |-> hook, err |-> nil]
                /\ stored'.Finalizers = updateFunc(hook, stored.Finalizers)
                /\ stored'.Status = stored.Status
          /\ (hook' = "none" /\ hpc = "get") => (hookRet'.err # nil /\ stored' = stored)
          /\ (hook' = "none" /\ hpc = "update"
                 /\ existingRepo.ResourceVersion # stored.ResourceVersion) =>
                (hookRet'.err # nil /\ stored' = stored)
          /\ (hook' = "none" /\ hookRet'.err # nil) => stored' = stored]_vars

\* C15 witness: the Update of an UnblockDeletion failed on a resource that
\* carries both finalizer names; both are still there.
C15_Witness ==
    /\ hook = "none"
    /\ hookRet.op = "unblockDeletion"
    /\ hookRet.err # nil
    /\ updates = 1
    /\ containsString(stored.Finalizers, deleteFinalizerName)
    /\ containsString(stored.Finalizers, deletePrevFinalizerName)

\* C16: the stop channel is closed at most once: over every sequence of
\* update events of one TailAppStatus, stopWatch is executed at most once.
C16_StopOnce == closes <= 1

\* C17: printTillCurrent and printUpdate never read a field of an absent
\* stage, whichever of Fetch, Template and Deploy the status has.
C17_NoNilDereference == panicMsg # "nil dereference"

C18_Updated(message) ==
    \E k \in 1..Len(updateLines) : updateLines[k].message = message
C18_FailedStage(pointer) == pointer # Nil /\ Deref(pointer).ExitCode # 0

\* C18: in the lines printUpdate prints for one update a stage has at most
\* one outcome: a stage reported failed is not also reported succeeded
\* (Fetch, Template) or progressing (Deploy); a stage whose result is
\* reported is reported failed exactly when its own ExitCode is non-zero;
\* and the Fetch failure line carries Fetch's stderr.
C18_OneOutcomePerStage ==
    (stopperChan # "nil" /\ panicMsg = "") =>
        /\ ~(C18_Updated("Fetch failed") /\ C18_Updated("Fetch succeeded"))
        /\ ~(C18_Updated("Template failed") /\ C18_Updated("Template succeeded"))
        /\ ~(C18_Updated("Deploy failed") /\ C18_Updated("Deploy progressing"))
        /\ (C18_Updated("Fetch failed") \/ C18_Updated("Fetch succeeded")) =>
              (C18_Updated("Fetch failed") <=> C18_FailedStage(appNow.Fetch))
        /\ (C18_Updated("Template failed") \/ C18_Updated("Template succeeded")) =>
              (C18_Updated("Template failed") <=> C18_FailedStage(appNow.Template))
        /\ (C18_Updated("Deploy failed") \/ C18_Updated("Deploy progressing")) =>
              (C18_Updated("Deploy failed") <=> C18_FailedStage(appNow.Deploy))
        /\ \A k \in 1..Len(updateLines) :
              updateLines[k].message = "Fetch failed" =>
                  updateLines[k].block = "Fetch.Stderr"

C19_StageFailed(pointer) ==
    /\ pointer # Nil
    /\ Deref(pointer).ExitCode # 0
    /\ Deref(pointer).UpdatedAt >= Deref(pointer).StartedAt
C19_Terminal(st) ==
    \/ hasReconciled(st)
    \/ C19_StageFailed(st.Fetch) \/ C19_StageFailed(st.Template) \/ C19_StageFailed(st.Deploy)

\* C19: with every step of TailAppStatus and of the informer eventually
\* taken (resync included), if the App's status comes to rest in a terminal
\* outcome (ReconcileSucceeded true, or a failed stage), whenever that
\* happens relative to the snapshot and the start of the watch, then
\* TailAppStatus eventually ends.
C19_TailTerminates ==
    <>[]C19_Terminal(appNow) => <>(tail \in {"returned", "panicked"})

\* C20: TailAppStatus returns a non-nil error when a stage failure was
\* reported, in the initial status or by an update event while watching,
\* and it returns nil only when the App was reported reconciled.
C20_FailureReported ==
    tail = "returned" =>
        /\ "failed" \in observed => tailErr # nil
        /\ tailErr = nil => (lastStage = reconciled \/ "reconciled" \in observed)

C21_OwnNames == {deleteFinalizerName, deletePrevFinalizerName}
C21_Others(finalizers) == SelectSeq(finalizers, LAMBDA item : item \notin C21_OwnNames)
C21_Except(finalizers, s) == SelectSeq(finalizers, LAMBDA item : item # s)

\* C21: BlockDeletion and UnblockDeletion change only the controller's own
\* finalizer names. Whatever the finalizer list, a step of either hook
\* leaves the finalizers other than deleteFinalizerName and
\* deletePrevFinalizerName as they were, same copies in the same order, and
\* leaves the status as it was; BlockDeletion leaves the deprecated name
\* alone too, and only ever adds.
C21_OnlyOwnFinalizers ==
    [][(hook \in {"blockDeletion", "unblockDeletion"} /\ otherWrites' = otherWrites) =>
          /\ C21_Others(stored'.Finalizers) = C21_Others(stored.Finalizers)
          /\ stored'.Status = stored.Status
          /\ hook = "blockDeletion" =>
                /\ C21_Except(stored'.Finalizers, deleteFinalizerName) =
                      C21_Except(stored.Finalizers, deleteFinalizerName)
                /\ Len(stored'.Finalizers) >= Len(stored.Finalizers)
          /\ stored'.Finalizers = stored.Finalizers =>
                stored'.ResourceVersion = stored.ResourceVersion]_vars

\* C21 witness: UnblockDeletion has removed the delete finalizer from a list
\* that began as another controller's finalizer followed by it; the other
\* finalizer is what is left.
C21_Witness ==
    /\ hook = "none"
    /\ hookRet = [op |-> "unblockDeletion", err |-> nil]
    /\ updates = 1
    /\ otherWrites = 0
    /\ initialFinalizers = <<otherFinalizerName, deleteFinalizerName>>
    /\ stored.Finalizers = <<otherFinalizerName>>
    /\ stored.ResourceVersion > 1

====
